---- MODULE Spec2Model ----
(***************************************************************************)
(* WeaveScope (src/app.py): the Streamlit script seen as a state machine.  *)
(* One step of the machine is one run of the script, triggered by one      *)
(* user event: a press of "Analyze with AI", a change of one status        *)
(* selectbox of the Monitoring tab, or any other interaction (a rerun).    *)
(* The state is st.session_state (registry, scan, alerts), the values the  *)
(* keyed selectboxes hold between two runs, the report the script composed *)
(* last, and the wall clock.                                               *)
(*                                                                         *)
(* Numbers.  A draw of rng.random() is u / RandomRange with u an integer.  *)
(* A similarity is kept in units of 1/RandomRange percent, a risk score in *)
(* units of 1/ScoreUnit, so that 0.48 * sim is the integer 48 * sim and    *)
(* every comparison of the source is exact.  A stored (rounded) score is   *)
(* an integer number of tenths.  A seed is an unsigned 64-bit integer      *)
(* written as four 16-bit limbs, least significant first.                  *)
(*                                                                         *)
(* Text.  The one-character ellipsis and the em dash of the source are     *)
(* written "~" and "-"; entered text contains neither.                     *)
(***************************************************************************)
EXTENDS Integers, Sequences, FiniteSets, TLC

VARIABLES registry, scan, alerts, widgets, pdf, clock, runLog, lastEvent, nEdits

vars == <<registry, scan, alerts, widgets, pdf, clock, runLog, lastEvent, nEdits>>

(***************************************************************************)
(* Bounds of the model                                                     *)
(***************************************************************************)
MaxRuns == 2
MaxEdits == 2
MaxTopK == 4
MaxUploadLen == 9
MaxMeaningLen == 222
MaxGenByte == 127

(***************************************************************************)
(* Constants of the program                                                *)
(***************************************************************************)
LimbBase == 65536
DefaultSeed == 424242
MinTopK == 3
MeaningLimit == 180
Ellipsis == "~"
Dash == "-"
SimLow == 62
SimHigh == 92
HighThreshold == 70
MedThreshold == 35
ScoreMax == 100
AlertRows == 3
AlertsShown == 8

Min(a, b) == IF a < b THEN a ELSE b
Max(a, b) == IF a > b THEN a ELSE b

Sensitivities == <<"Everyday", "Ceremonial", "Sacred">>
Consents == <<"Private", "Community shared", "Monitoring enabled">>
Catalog == <<"CatalogX", "DemoMarket", "CraftHub">>
Statuses == <<"New", "In review", "Ignored", "Flagged">>

titles ==
  << "Woven Jacquard Jacket", "Printed Scarf (Limited Run)", "Decor Textile Cushion",
     "Embroidery Panel Bag", "Patterned Wrap Dress", "Home Textile Wall Hanging",
     "Cotton Kimono Robe", "Handmade Tote with Motif" >>
brands == <<"Maison Lume", "Studio Loom", "North & Co", "Atelier Vale", "Kora Works", "Urban Nomad">>
sources == <<"CatalogX", "DemoMarket", "CraftHub">>
flags_pool == <<"tribal", "exotic", "ethnic", "primitive", "oriental-inspired">>
styles == <<"weave", "plaid", "herringbone", "stripes", "ikat_soft">>

Range(s) == {s[k] : k \in 1..Len(s)}

(***************************************************************************)
(* Seeds                                                                   *)
(***************************************************************************)
IntToSeed(n) == <<n % LimbBase, (n \div LimbBase) % LimbBase, 0, 0>>

ByteOrZero(bs, k) == IF k <= Len(bs) THEN bs[k] ELSE 0

\* a slip: the bytes read most significant first
FromBytesBig(bs) ==
  LET byte(k) == IF k <= Len(bs) THEN bs[Len(bs) + 1 - k] ELSE 0
  IN  [j \in 1..4 |-> byte(2 * j - 1) + 256 * byte(2 * j)]

\* int.from_bytes(bs, "little", signed=False) for Len(bs) <= 8
FromBytesLittle(bs) == [j \in 1..4 |-> ByteOrZero(bs, 2 * j - 1) + 256 * ByteOrZero(bs, 2 * j)]

Take(s, n) == SubSeq(s, 1, Min(n, Len(s)))

\* r is the draw of random.randint(0, 10**9) made when b is empty; the script
\* never gets there, an empty upload fails to decode on line 595
stable_seed_from_bytes(b, r) ==
  IF Len(b) = 0 THEN IntToSeed(r) ELSE FromBytesLittle(Take(b, 8))

\* seed % m, for a modulus m below 2^15
SeedMod(seed, m) ==
  LET h4 == seed[4] % m
      h3 == (h4 * LimbBase + seed[3]) % m
      h2 == (h3 * LimbBase + seed[2]) % m
  IN  (h2 * LimbBase + seed[1]) % m

(***************************************************************************)
(* random.Random: a seeded generator.  The Mersenne Twister is replaced by *)
(* a 16-bit linear congruential generator; what the program relies on is   *)
(* kept: the stream is a function of the seed alone, every method call     *)
(* consumes the stream, and random() is uniform on [0, 1).                 *)
(***************************************************************************)
RngModulus == 65536
RngMultiplier == 25173
RngIncrement == 13849
RandomRange == 4096

\* a slip: random.Random(), seeded from the time and not from the seed
RandomUnseeded(seed) == (7919 * clock + 1) % RngModulus

\* random.Random(seed): the state after seeding
Random(seed) ==
  LET h4 == seed[4] % 2048
      h3 == (h4 * 31 + seed[3]) % RngModulus
      h2 == (h3 * 31 + seed[2]) % RngModulus
  IN  (h2 * 31 + seed[1]) % RngModulus

\* the state after one more draw
RngStep(s) == (RngMultiplier * s + RngIncrement) % RngModulus

\* rng.random() as u / RandomRange, read from the state the draw leaves
RandomU(s) == s \div (RngModulus \div RandomRange)

\* rng.uniform(a, b) = a + (b - a) * random(), in units of 1 / RandomRange
Uniform(a, b, s) == a * RandomRange + (b - a) * RandomU(s)

\* rng.choice(seq)
Choice(seq, s) == seq[(RandomU(s) * Len(seq)) \div RandomRange + 1]

\* rng.random() < pct / 100
Below(s, pct) == 100 * RandomU(s) < pct * RandomRange

(***************************************************************************)
(* Scoring                                                                 *)
(***************************************************************************)
ScoreUnit == 100 * RandomRange

risk_level(score) ==
  IF score >= HighThreshold * ScoreUnit THEN "high"
  ELSE IF score >= MedThreshold * ScoreUnit THEN "med"
  ELSE "low"

\* a slip: Ceremonial given the bonus of Sacred
SensitivityBonusFlat(sensitivity) ==
  IF sensitivity = "Sacred" THEN 25 ELSE IF sensitivity = "Ceremonial" THEN 25 ELSE 6

SensitivityBonus(sensitivity) ==
  IF sensitivity = "Sacred" THEN 25 ELSE IF sensitivity = "Ceremonial" THEN 15 ELSE 6

NoiseBonus(high) == IF high THEN 12 ELSE 4

\* a slip: the weight written 48 for 0.48 and the clamp left out
ScoreUnclamped(sim, sensitivity, high) ==
  4800 * sim + (SensitivityBonus(sensitivity) + NoiseBonus(high)) * ScoreUnit

\* a slip: the weight 0.84 for 0.48
RawScore84(sim, sensitivity, high) ==
  84 * sim + (SensitivityBonus(sensitivity) + NoiseBonus(high)) * ScoreUnit

\* lines 651-655: the weighted sum
RawScore(sim, sensitivity, high) ==
  48 * sim + (SensitivityBonus(sensitivity) + NoiseBonus(high)) * ScoreUnit

\* line 656: max(0, min(100, score))
Clamp(score) == Max(0, Min(ScoreMax * ScoreUnit, score))

\* lines 651-656: the weighted sum, then the clamp
Score(sim, sensitivity, high) == Clamp(RawScore(sim, sensitivity, high))

\* round(score, 1) in tenths, ties to the even tenth
Round1(score) ==
  LET unit == ScoreUnit \div 10
      q == score \div unit
      r == score % unit
  IN  IF 2 * r < unit THEN q
      ELSE IF 2 * r > unit THEN q + 1
      ELSE IF q % 2 = 0 THEN q ELSE q + 1

\* int(sim)
IntPart(sim) == sim \div RandomRange

Lower(name) ==
  IF name = "CatalogX" THEN "catalogx"
  ELSE IF name = "DemoMarket" THEN "demomarket"
  ELSE IF name = "CraftHub" THEN "crafthub"
  ELSE name

(***************************************************************************)
(* The generation loop, lines 647-676                                      *)
(***************************************************************************)
\* pick_flags(rng): the flags and the state of the generator afterwards
pick_flags(s) ==
  LET s1 == RngStep(s)
      s2 == RngStep(s1)
  IN  IF Below(s1, 45) THEN [flags |-> <<Choice(flags_pool, s2)>>, rng |-> s2]
      ELSE [flags |-> <<>>, rng |-> s1]

\* one iteration of the loop: the row appended and the generator afterwards
GenRow(s, i, seed, sensitivity) ==
  LET s1 == RngStep(s)        \* sim
      s2 == RngStep(s1)       \* noise bonus
      s3 == RngStep(s2)       \* swatch style
      s4 == RngStep(s3)       \* attribution
      pf == pick_flags(s4)
      s5 == RngStep(pf.rng)   \* url host
      s6 == RngStep(s5)       \* title
      s7 == RngStep(s6)       \* brand
      s8 == RngStep(s7)       \* source
      sim == Uniform(SimLow, SimHigh, s1)
      score == Score(sim, sensitivity, Below(s2, 60))
  IN  [ raw |-> RawScore(sim, sensitivity, Below(s2, 60)),
        clamped |-> score,
        row |-> [ rank |-> i + 1,
                  title |-> Choice(titles, s6),
                  brand |-> Choice(brands, s7),
                  source |-> Choice(sources, s8),
                  similarity |-> IntPart(sim),
                  score |-> Round1(score),
                  level |-> risk_level(score),
                  attribution |-> IF Below(s4, 35) THEN "present" ELSE "absent",
                  flags |-> pf.flags,
                  img |-> [offset |-> i * 91 + 7, style |-> Choice(styles, s3)],
                  url |-> [host |-> Lower(Choice(sources, s5)) \o ".example.com",
                           listing |-> <<SeedMod(seed, 9999), i>>] ],
        rng |-> s8 ]

RECURSIVE GenLoop(_, _, _, _, _, _)
GenLoop(rows, s, i, top_k, seed, sensitivity) ==
  IF i >= top_k THEN rows
  ELSE LET g == GenRow(s, i, seed, sensitivity)
       IN  GenLoop(Append(rows, g.row), g.rng, i + 1, top_k, seed, sensitivity)

\* what the variable score holds before and after line 656, by iteration
RECURSIVE GenScores(_, _, _, _, _, _)
GenScores(log, s, i, top_k, seed, sensitivity) ==
  IF i >= top_k THEN log
  ELSE LET g == GenRow(s, i, seed, sensitivity)
       IN  GenScores(Append(log, [raw |-> g.raw, clamped |-> g.clamped]), g.rng, i + 1,
                     top_k, seed, sensitivity)

\* a slip: key=lambda r: r["score"]
KeyGreaterScoreOnly(a, b) == a.score > b.score

\* r["score"], r["similarity"] compared as tuples
KeyGreater(a, b) ==
  \/ a.score > b.score
  \/ a.score = b.score /\ a.similarity > b.similarity

\* a slip: a row goes in front of the rows whose key equals its own, as a
\* sort followed by a reversal does
RECURSIVE InsertDescFront(_, _)
InsertDescFront(sorted, r) ==
  IF sorted = <<>> THEN <<r>>
  ELSE IF ~KeyGreater(Head(sorted), r) THEN <<r>> \o sorted
  ELSE <<Head(sorted)>> \o InsertDescFront(Tail(sorted), r)

\* sorted(..., reverse=True) is stable: a row goes behind every row whose key
\* is not smaller than its own
RECURSIVE InsertDesc(_, _)
InsertDesc(sorted, r) ==
  IF sorted = <<>> THEN <<r>>
  ELSE IF KeyGreater(r, Head(sorted)) THEN <<r>> \o sorted
  ELSE <<Head(sorted)>> \o InsertDesc(Tail(sorted), r)

RECURSIVE SortedRows(_)
SortedRows(rows) ==
  IF rows = <<>> THEN <<>>
  ELSE InsertDesc(SortedRows(SubSeq(rows, 1, Len(rows) - 1)), rows[Len(rows)])

\* lines 647-678
GenerateRows(seed, top_k, sensitivity) ==
  SortedRows(GenLoop(<<>>, Random(seed), 0, top_k, seed, sensitivity))

(***************************************************************************)
(* Submission metadata, lines 606-614                                      *)
(***************************************************************************)
RECURSIVE JoinComma(_)
JoinComma(names) ==
  IF names = <<>> THEN ""
  ELSE IF Len(names) = 1 THEN names[1]
  ELSE names[1] \o ", " \o JoinComma(Tail(names))

OrDash(text) == IF text = "" THEN Dash ELSE text

\* a slip: the limit of the other variants of the application
MeaningField220(meaning) ==
  IF Len(meaning) > 220 THEN SubSeq(meaning, 1, 220) \o Ellipsis
  ELSE OrDash(meaning)

MeaningField(meaning) ==
  IF Len(meaning) > MeaningLimit THEN SubSeq(meaning, 1, MeaningLimit) \o Ellipsis
  ELSE OrDash(meaning)

Meta(culture, origin, meaning, sensitivity, consent, marketplaces, now) ==
  [ culture |-> OrDash(culture),
    origin |-> OrDash(origin),
    meaning |-> MeaningField(meaning),
    sensitivity |-> sensitivity,
    consent |-> consent,
    marketplaces |-> IF marketplaces = <<>> THEN Dash ELSE JoinComma(marketplaces),
    created_at |-> now ]

(***************************************************************************)
(* Formatting of numbers                                                   *)
(***************************************************************************)
Digits == "0123456789"

RECURSIVE DecStr(_)
DecStr(n) ==
  IF n < 10 THEN SubSeq(Digits, n + 1, n + 1)
  ELSE DecStr(n \div 10) \o SubSeq(Digits, (n % 10) + 1, (n % 10) + 1)

\* f"{n:03d}"
Pad3(n) ==
  LET d == DecStr(n)
  IN  IF Len(d) = 1 THEN "00" \o d ELSE IF Len(d) = 2 THEN "0" \o d ELSE d

(***************************************************************************)
(* make_pdf_report, lines 402-459.  The document is the content drawn, in  *)
(* the order of the drawString calls; a line is the sequence of the parts  *)
(* of its f-string.  Coordinates and fonts are left out: with at most      *)
(* ReportMatches entries y never falls below 120 and the document has one  *)
(* page.                                                                   *)
(***************************************************************************)
BRAND_NAME == "WeaveScope"
ReportMatches == 3

ReportEntry(idx, m) ==
  << <<idx, ". ", m.title, " - Risk ", m.score, "/100">>,
     <<"Brand: ", m.brand, " | Source: ", m.source>>,
     <<"URL: ", m.url>>,
     <<"Visual similarity: ", m.similarity, "% | Attribution signal: ", m.attribution>> >>
  \o (IF m.flags # <<>> THEN << <<"Language signals: ", JoinComma(m.flags)>> >> ELSE <<>>)

\* a slip: matches[:4], the upper end of "3-4 records"
make_pdf_report4(brand, query_img, meta, matches, now) ==
  [ title |-> <<brand, " - Pattern Risk Assessment">>,
    generated |-> <<"Generated: ", now>>,
    image |-> query_img,
    lines |-> << <<"Culture / Community: ", meta.culture>>,
                 <<"Geographic origin: ", meta.origin>>,
                 <<"Meaning / function: ", meta.meaning>>,
                 <<"Sensitivity: ", meta.sensitivity>>,
                 <<"Consent: ", meta.consent>>,
                 <<"Marketplaces: ", meta.marketplaces>> >>,
    heading |-> "Top matches (evidence)",
    matches |-> [idx \in 1..Min(4, Len(matches)) |-> ReportEntry(idx, matches[idx])],
    note |-> "Note: Advisory risk signal for community review. Not a legal determination." ]

make_pdf_report(brand, query_img, meta, matches, now) ==
  [ title |-> <<brand, " - Pattern Risk Assessment">>,
    generated |-> <<"Generated: ", now>>,
    image |-> query_img,
    lines |-> << <<"Culture / Community: ", meta.culture>>,
                 <<"Geographic origin: ", meta.origin>>,
                 <<"Meaning / function: ", meta.meaning>>,
                 <<"Sensitivity: ", meta.sensitivity>>,
                 <<"Consent: ", meta.consent>>,
                 <<"Marketplaces: ", meta.marketplaces>> >>,
    heading |-> "Top matches (evidence)",
    matches |-> [idx \in 1..Len(Take(matches, ReportMatches)) |->
                   ReportEntry(idx, Take(matches, ReportMatches)[idx])],
    note |-> "Note: Advisory risk signal for community review. Not a legal determination." ]

\* the Reports tab, lines 854-861: the report of the latest scan, if any
ReportsTab(sc, doc, now) ==
  IF sc = <<>> THEN doc
  ELSE <<make_pdf_report(BRAND_NAME, sc[1].query_img, sc[1].meta, sc[1].rows, now)>>

(***************************************************************************)
(* Session state, lines 465-470                                            *)
(***************************************************************************)
NoEvent == [kind |-> "start", idx |-> 0, status |-> "", outcome |-> "ok"]

Init ==
  /\ registry = <<>>
  /\ scan = <<>>            \* None is the empty sequence, a scan is <<scan>>
  /\ alerts = <<>>
  /\ widgets = <<>>
  /\ pdf = <<>>             \* no report composed yet, a report is <<document>>
  /\ clock = 0
  /\ runLog = <<>>
  /\ lastEvent = NoEvent
  /\ nEdits = 0

(***************************************************************************)
(* Lines 688-708: what a run adds to the registry and the alert list       *)
(***************************************************************************)
\* a slip: the number taken from len(registry) without the + 1
RegistryEntryZeroBased(reg, meta) ==
  [ id |-> "ITEM-" \o Pad3(Len(reg)),
    culture |-> meta.culture,
    origin |-> meta.origin,
    sensitivity |-> meta.sensitivity,
    consent |-> meta.consent,
    created_at |-> meta.created_at ]

RegistryEntry(reg, meta) ==
  [ id |-> "ITEM-" \o Pad3(Len(reg) + 1),
    culture |-> meta.culture,
    origin |-> meta.origin,
    sensitivity |-> meta.sensitivity,
    consent |-> meta.consent,
    created_at |-> meta.created_at ]

AlertOf(r, now) ==
  [ created_at |-> now,
    title |-> r.title,
    brand |-> r.brand,
    risk |-> r.score,
    similarity |-> r.similarity,
    status |-> "New",
    url |-> r.url ]

\* a slip: alerts[0] = {...} in place of alerts.insert(0, {...})
RECURSIVE OverwriteAlerts(_, _, _)
OverwriteAlerts(al, rows, now) ==
  IF rows = <<>> THEN al
  ELSE LET r == Head(rows)
           al1 == IF r.score >= HighThreshold * 10
                  THEN <<AlertOf(r, now)>> \o (IF al = <<>> THEN <<>> ELSE Tail(al))
                  ELSE al
       IN  OverwriteAlerts(al1, Tail(rows), now)

\* for r in rows: if r["score"] >= 70: alerts.insert(0, {...})
RECURSIVE InsertAlerts(_, _, _)
InsertAlerts(al, rows, now) ==
  IF rows = <<>> THEN al
  ELSE LET r == Head(rows)
           al1 == IF r.score >= HighThreshold * 10 THEN <<AlertOf(r, now)>> \o al ELSE al
       IN  InsertAlerts(al1, Tail(rows), now)

(***************************************************************************)
(* Monitoring tab, lines 803-824.  A selectbox with a key keeps, from one  *)
(* run of the script to the next, the value it last returned                *)
(* (st.session_state["st_<idx>"]); its index argument sets the value only  *)
(* on the run that creates the widget.  w is what the widgets held when    *)
(* the run started, changed at position `at` to `val` when the event of    *)
(* the run is the reviewer's choice in that selectbox (at = 0: no choice). *)
(***************************************************************************)
Shown(al) == Min(AlertsShown, Len(al))

DefaultStatus(a) == IF a.status \in Range(Statuses) THEN a.status ELSE Statuses[1]

WidgetValue(al, w, at, val, idx) ==
  IF idx = at THEN val
  ELSE IF idx <= Len(w) THEN w[idx]
  ELSE DefaultStatus(al[idx])

RenderWidgets(al, w, at, val) == [idx \in 1..Shown(al) |-> WidgetValue(al, w, at, val, idx)]

\* st.session_state.alerts[idx]["status"] = new_status
RenderAlerts(al, w, at, val) ==
  [idx \in 1..Len(al) |->
     IF idx <= Shown(al) THEN [al[idx] EXCEPT !.status = WidgetValue(al, w, at, val, idx)]
     ELSE al[idx]]

(***************************************************************************)
(* One run of the script with run = True (lines 593-599 and 605-792, then  *)
(* the Monitoring tab).  upload = <<>> stands for no uploaded file.        *)
(***************************************************************************)
SeedOf(upload, r) ==
  IF upload = <<>> THEN IntToSeed(DefaultSeed) ELSE stable_seed_from_bytes(upload, r)

Analyze(upload, r, culture, origin, sensitivity, consent, meaning, marketplaces, top_k, scanRand) ==
  LET seed == SeedOf(upload, r)
      meta == Meta(culture, origin, meaning, sensitivity, consent, marketplaces, clock + 1)
      rows == GenerateRows(seed, top_k, sensitivity)
      al == IF consent = "Monitoring enabled"
            THEN InsertAlerts(alerts, Take(rows, AlertRows), clock + 2)
            ELSE alerts
      failed == rows = <<>>      \* top = rows[0] raises IndexError, the script stops
  IN  /\ Len(runLog) < MaxRuns
      /\ clock' = clock + 2
      /\ scan' = << [ meta |-> meta, query_img |-> upload, rows |-> rows,
                      scan_id |-> "WS-" \o DecStr(scanRand) ] >>
      /\ registry' = <<RegistryEntry(registry, meta)>> \o registry
      /\ alerts' = IF failed THEN al ELSE RenderAlerts(al, widgets, 0, "")
      /\ widgets' = IF failed THEN <<>> ELSE RenderWidgets(al, widgets, 0, "")
      /\ pdf' = IF failed THEN pdf
                ELSE <<make_pdf_report(BRAND_NAME, upload, meta, rows, clock + 2)>>
      /\ runLog' = Append(runLog, [ upload |-> upload, seed |-> seed, top_k |-> top_k,
                                    sensitivity |-> sensitivity, consent |-> consent,
                                    marketplaces |-> marketplaces, meaning |-> meaning,
                                    rows |-> rows,
                                    scores |-> GenScores(<<>>, Random(seed), 0, top_k, seed,
                                                         sensitivity) ])
      /\ lastEvent' = [ kind |-> "analyze", idx |-> 0, status |-> "",
                        outcome |-> IF failed THEN "IndexError" ELSE "ok" ]
      /\ UNCHANGED nEdits

(***************************************************************************)
(* One run of the script after the reviewer chose `status` in the          *)
(* selectbox st_<idx - 1> (positions count from 1 here)                    *)
(***************************************************************************)
SetStatus(idx, status) ==
  /\ nEdits < MaxEdits
  /\ nEdits' = nEdits + 1
  /\ idx \in 1..Len(widgets)
  /\ status \in Range(Statuses)
  /\ status # widgets[idx]
  /\ alerts' = RenderAlerts(alerts, widgets, idx, status)
  /\ widgets' = RenderWidgets(alerts, widgets, idx, status)
  /\ pdf' = ReportsTab(scan, pdf, clock)
  /\ lastEvent' = [kind |-> "status", idx |-> idx, status |-> status, outcome |-> "ok"]
  /\ UNCHANGED <<registry, scan, clock, runLog>>

(***************************************************************************)
(* One run of the script with no button pressed and no selectbox changed:  *)
(* the tabs are rendered from the session state (lines 803-824, 854-861)   *)
(***************************************************************************)
Rerun ==
  /\ alerts' = RenderAlerts(alerts, widgets, 0, "")
  /\ widgets' = RenderWidgets(alerts, widgets, 0, "")
  /\ pdf' = ReportsTab(scan, pdf, clock)
  /\ lastEvent' = [kind |-> "rerun", idx |-> 0, status |-> "", outcome |-> "ok"]
  /\ UNCHANGED <<registry, scan, clock, runLog, nEdits>>

(***************************************************************************)
(* Inputs of the form.  The sliders and selectboxes give their whole       *)
(* ranges; uploads, free text and the draws of the global generator are    *)
(* samples.                                                                *)
(***************************************************************************)
NoUpload == <<>>
ByteMax == 255
ByteSample == {0, 1, ByteMax}
ScanRandSample == {10000, 99999}
TopKs == MinTopK..MaxTopK
DefaultMarketplaces == <<"CatalogX", "DemoMarket">>
MarketplaceSample == {<<>>, <<"CatalogX">>, DefaultMarketplaces, Catalog}
TextSample == {"", "Andean"}

Alphabet == "abcdefghij"

RECURSIVE Text(_)
Text(n) ==
  IF n <= Len(Alphabet) THEN SubSeq(Alphabet, 1, n)
  ELSE Alphabet \o Text(n - Len(Alphabet))

RECURSIVE ByteStrings(_)
ByteStrings(n) ==
  IF n = 0 THEN {<<>>}
  ELSE LET shorter == ByteStrings(n - 1)
       IN  shorter \cup {Append(bs, b) : bs \in {x \in shorter : Len(x) = n - 1}, b \in ByteSample}

(***************************************************************************)
(* Spec: a session.  Runs and status changes interleave.                   *)
(***************************************************************************)
SessionUploads == {NoUpload, <<1>>}

AnalyzeSession ==
  \E upload \in SessionUploads, sensitivity \in Range(Sensitivities),
     consent \in Range(Consents), scanRand \in ScanRandSample :
       Analyze(upload, 0, "Andean", "Cusco", sensitivity, consent, "", DefaultMarketplaces,
               MinTopK, scanRand)

Review == \E idx \in 1..AlertsShown, status \in Range(Statuses) : SetStatus(idx, status)

Next == AnalyzeSession \/ Review

Spec == Init /\ [][Next]_vars

(***************************************************************************)
(* SpecGen: one run, over one- and two-byte uploads, every sensitivity,    *)
(* every consent and the sampled marketplace selections.                   *)
(***************************************************************************)
GenUploads ==
  {NoUpload} \cup {<<b>> : b \in 0..MaxGenByte} \cup {<<b, c>> : b \in 0..MaxGenByte, c \in {6}}

AnalyzeGen ==
  /\ runLog = <<>>
  /\ \E upload \in GenUploads, sensitivity \in Range(Sensitivities), consent \in Range(Consents),
        marketplaces \in MarketplaceSample, top_k \in TopKs :
          Analyze(upload, 0, "Andean", "Cusco", sensitivity, consent, "", marketplaces,
                  top_k, 10000)

NextGen == AnalyzeGen

SpecGen == Init /\ [][NextGen]_vars

(***************************************************************************)
(* SpecSeed: one run, over uploads of up to MaxUploadLen sampled bytes.    *)
(***************************************************************************)
AnalyzeSeed ==
  /\ runLog = <<>>
  /\ \E upload \in ByteStrings(MaxUploadLen) \ {<<>>} :
          Analyze(upload, 0, "Andean", "Cusco", "Everyday", "Private", "", DefaultMarketplaces,
                  MinTopK, 10000)

NextSeed == AnalyzeSeed

SpecSeed == Init /\ [][NextSeed]_vars

(***************************************************************************)
(* SpecMeta: one run, over entered texts of every length up to             *)
(* MaxMeaningLen.                                                          *)
(***************************************************************************)
AnalyzeMeta ==
  /\ runLog = <<>>
  /\ \E short \in 0..MaxMeaningLen, culture \in TextSample, origin \in TextSample,
        marketplaces \in MarketplaceSample, scanRand \in ScanRandSample :
          Analyze(NoUpload, 0, culture, origin, "Everyday", "Private",
                  Text(MaxMeaningLen - short), marketplaces, MinTopK, scanRand)

NextMeta == AnalyzeMeta

SpecMeta == Init /\ [][NextMeta]_vars

(***************************************************************************)
(* SpecCore: one run of the generation block with the bound of the         *)
(* "Results" slider lifted (top_k from 0), then reruns of the script.      *)
(* Through the slider of line 571 top_k is never below MinTopK.            *)
(***************************************************************************)
CoreUploads == {NoUpload} \cup {<<b>> : b \in 0..MaxGenByte}

AnalyzeCore ==
  /\ runLog = <<>>
  /\ \E upload \in CoreUploads, sensitivity \in Range(Sensitivities), consent \in Range(Consents),
        top_k \in 0..MaxTopK :
          Analyze(upload, 0, "Andean", "Cusco", sensitivity, consent, "", DefaultMarketplaces,
                  top_k, 10000)

NextCore == AnalyzeCore \/ Rerun

SpecCore == Init /\ [][NextCore]_vars

(***************************************************************************)
(* Properties                                                              *)
(***************************************************************************)
ScanRows == IF scan = <<>> THEN <<>> ELSE scan[1].rows

LastRun == runLog[Len(runLog)]

\* C1: for every match record stored by a run, the level is a function of the
\* stored score: high iff score >= 70, med iff 35 <= score < 70, low iff
\* score < 35 (stored scores are tenths).
C1_LevelFromStoredScore ==
  \A k \in 1..Len(ScanRows) :
    LET r == ScanRows[k]
    IN  /\ r.level = "high" <=> r.score >= HighThreshold * 10
        /\ r.level = "med" <=> (MedThreshold * 10 <= r.score /\ r.score < HighThreshold * 10)
        /\ r.level = "low" <=> r.score < MedThreshold * 10

\* C2: in the ordered rows of a run, every adjacent pair (a, b) has
\* a.score > b.score, or a.score = b.score and a.similarity >= b.similarity.
C2_Ranked ==
  \A k \in 1..(Len(ScanRows) - 1) :
    LET a == ScanRows[k]
        b == ScanRows[k + 1]
    IN  \/ a.score > b.score
        \/ a.score = b.score /\ a.similarity >= b.similarity

\* a run whose generation order was not the ranked order, and where a tie in
\* score was decided by the similarity
C2_Witness ==
  /\ \E k \in 1..(Len(ScanRows) - 1) : ScanRows[k].rank > ScanRows[k + 1].rank
  /\ \E k \in 1..(Len(ScanRows) - 1) :
       /\ ScanRows[k].score = ScanRows[k + 1].score
       /\ ScanRows[k].similarity > ScanRows[k + 1].similarity
       /\ ScanRows[k].rank > ScanRows[k + 1].rank

\* C3: every stored score lies in [0, 100] (tenths: [0, 1000]).
C3_Clamped ==
  \A k \in 1..Len(ScanRows) :
    0 <= ScanRows[k].score /\ ScanRows[k].score <= ScoreMax * 10

\* a run under Sacred with a record that drew the high bonus and a similarity
\* of 91 or more: the largest sums the formula produces
C3_Witness ==
  /\ runLog # <<>>
  /\ LastRun.sensitivity = "Sacred"
  /\ \E k \in 1..Len(ScanRows) : ScanRows[k].similarity >= SimHigh - 1 /\ ScanRows[k].score >= 800

\* C5: every record's source is one of the marketplaces selected for the
\* submission, when the selection is not empty.
C5_SourceSelected ==
  (runLog # <<>> /\ LastRun.marketplaces # <<>>) =>
     \A k \in 1..Len(ScanRows) : ScanRows[k].source \in Range(LastRun.marketplaces)

\* the fields of a match record the draws decide, whatever the sensitivity
Drawn(r) ==
  [ rank |-> r.rank, title |-> r.title, brand |-> r.brand, source |-> r.source,
    similarity |-> r.similarity, attribution |-> r.attribution, flags |-> r.flags,
    img |-> r.img, url |-> r.url ]

\* the fields of a match record named by the determinism claim
Claimed(r) ==
  [ rank |-> r.rank, title |-> r.title, brand |-> r.brand, source |-> r.source,
    similarity |-> r.similarity, score |-> r.score, level |-> r.level,
    attribution |-> r.attribution, flags |-> r.flags, url |-> r.url ]

RowByRank(rows, k) == CHOOSE r \in Range(rows) : r.rank = k

SensitivityOrder(sensitivity) ==
  IF sensitivity = "Sacred" THEN 3 ELSE IF sensitivity = "Ceremonial" THEN 2 ELSE 1

\* C6: with seed and topK fixed, the sensitivity changes no draw, and the
\* record of each generation index scores strictly more under Sacred than
\* under Ceremonial, and under Ceremonial than under Everyday.
C6_SensitivityMonotone ==
  \A i, j \in 1..Len(runLog) :
    (runLog[i].seed = runLog[j].seed /\ runLog[i].top_k = runLog[j].top_k) =>
      \A k \in 1..runLog[i].top_k :
        LET a == RowByRank(runLog[i].rows, k)
            b == RowByRank(runLog[j].rows, k)
        IN  /\ Drawn(a) = Drawn(b)
            /\ SensitivityOrder(runLog[i].sensitivity) > SensitivityOrder(runLog[j].sensitivity)
                 => a.score > b.score

\* two runs from one seed, the first under Ceremonial and the second under Sacred
C6_Witness ==
  /\ Len(runLog) = 2
  /\ runLog[1].seed = runLog[2].seed
  /\ runLog[1].top_k = runLog[2].top_k
  /\ runLog[1].sensitivity = "Ceremonial"
  /\ runLog[2].sensitivity = "Sacred"

\* byte k (1 = least significant) of a seed
SeedByte(seed, k) == (seed[((k - 1) \div 2) + 1] \div (IF k % 2 = 1 THEN 1 ELSE 256)) % 256

\* C7: the seed of a non-empty upload is the unsigned little-endian integer
\* of its first 8 bytes, missing bytes counting as zero; it lies in
\* [0, 2^64) and depends on no byte after the eighth.
C7_SeedLittleEndian ==
  \A i \in 1..Len(runLog) :
    runLog[i].upload # <<>> =>
      /\ Len(runLog[i].seed) = 4
      /\ \A j \in 1..4 : runLog[i].seed[j] \in 0..(LimbBase - 1)
      /\ \A k \in 1..8 :
           SeedByte(runLog[i].seed, k) =
             IF k <= Len(runLog[i].upload) THEN runLog[i].upload[k] ELSE 0

\* an upload longer than 8 bytes whose eighth and ninth bytes are set
C7_Witness ==
  /\ runLog # <<>>
  /\ Len(LastRun.upload) > 8
  /\ LastRun.upload[8] = ByteMax
  /\ LastRun.upload[9] # 0
  /\ LastRun.upload[1] = 1

\* C8 as stated: the meaning field is the entered text when it has at most
\* 220 characters, else its first 220 characters and the ellipsis.
C8_Meaning220 ==
  runLog # <<>> =>
    scan[1].meta.meaning =
      IF Len(LastRun.meaning) <= 220 THEN LastRun.meaning
      ELSE SubSeq(LastRun.meaning, 1, 220) \o Ellipsis

\* C8 amended: the meaning field is the entered text when it has between 1
\* and 180 characters, the dash when the text is empty, and otherwise its
\* first 180 characters followed by the ellipsis.
C8_Meaning180 ==
  runLog # <<>> =>
    LET m == LastRun.meaning
        field == scan[1].meta.meaning
    IN  /\ (1 <= Len(m) /\ Len(m) <= 180) => field = m
        /\ Len(m) = 0 => field = Dash
        /\ Len(m) > 180 =>
             /\ Len(field) = 181
             /\ SubSeq(field, 1, 180) = SubSeq(m, 1, 180)
             /\ SubSeq(field, 181, 181) = Ellipsis

\* a text of more than 180 and at most 220 characters was entered
C8_Witness ==
  /\ runLog # <<>>
  /\ Len(LastRun.meaning) > 180
  /\ Len(LastRun.meaning) <= 220
  /\ Len(scan[1].meta.meaning) = 181

WithoutStatus(a) == [a EXCEPT !.status = ""]

\* C9: the registry and the alert list only grow at the front: every run adds
\* exactly one registry entry, no entry or alert is removed, and nothing of
\* an existing entry or alert changes but an alert's status.
C9_AppendOnly ==
  [][ LET k == Len(alerts') - Len(alerts)
      IN  /\ k >= 0
          /\ \A j \in 1..Len(alerts) : WithoutStatus(alerts'[j + k]) = WithoutStatus(alerts[j])
          /\ IF Len(runLog') = Len(runLog) + 1
             THEN Len(registry') = Len(registry) + 1 /\ Tail(registry') = registry
             ELSE registry' = registry
    ]_vars

\* alerts of two runs are listed, and a reviewer has set a status
C9_Witness ==
  /\ Len(registry) >= 2
  /\ \E i, j \in 1..Len(alerts) : alerts[i].created_at # alerts[j].created_at
  /\ \E i \in 1..Len(alerts) : alerts[i].status # "New"
  /\ nEdits > 0

\* C10: an alert's status changes only when the reviewer assigns a status to
\* that alert: a new alert is New, and a run that inserts alerts changes the
\* status of no alert that exists.
C10_StatusOnlyByReviewer ==
  [][ LET k == Len(alerts') - Len(alerts)
      IN  /\ \A j \in 1..k : alerts'[j].status = "New"
          /\ \A j \in 1..Len(alerts) :
               alerts'[j + k].status # alerts[j].status =>
                 (k = 0 /\ lastEvent'.kind = "status" /\ lastEvent'.idx = j)
    ]_vars

\* C11: whenever the script has composed the report of a scan with n >= 0
\* ranked rows, the document exists and holds the header, the six metadata
\* lines of the scan, the disclaimer, and exactly the first min(n, 3) rows in
\* ranked order (entry k describes row k); with n = 0 it has no entry.
C11_ReportComposed ==
  (scan # <<>> /\ lastEvent.outcome = "ok") =>
    /\ pdf # <<>>
    /\ LET doc == pdf[1]
           meta == scan[1].meta
           rows == scan[1].rows
           n == Len(rows)
       IN  /\ doc.title[1] = "WeaveScope"
           /\ [k \in 1..Len(doc.lines) |-> doc.lines[k][2]] =
                <<meta.culture, meta.origin, meta.meaning, meta.sensitivity, meta.consent,
                  meta.marketplaces>>
           /\ Len(doc.note) > 0
           /\ Len(doc.matches) = (IF n < 3 THEN n ELSE 3)
           /\ \A k \in 1..Len(doc.matches) :
                LET e == doc.matches[k]
                    r == rows[k]
                IN  /\ e[1][1] = k /\ e[1][3] = r.title /\ e[1][5] = r.score
                    /\ e[2][2] = r.brand /\ e[2][4] = r.source
                    /\ e[3][2] = r.url
                    /\ e[4][2] = r.similarity /\ e[4][4] = r.attribution
                    /\ Len(e) = (IF r.flags = <<>> THEN 4 ELSE 5)

\* a rerun has composed the report of a scan without rows
C11_Witness ==
  /\ lastEvent.kind = "rerun"
  /\ scan # <<>>
  /\ scan[1].rows = <<>>
  /\ pdf # <<>>
  /\ pdf[1].matches = <<>>

\* C12: the URL of every match record is built from the record's own source:
\* its host is the lower-cased source followed by ".example.com", and its
\* path embeds seed mod 9999 and the generation index i = rank - 1.
C12_UrlFromSource ==
  \A k \in 1..Len(ScanRows) :
    LET r == ScanRows[k]
    IN  /\ r.url.host = Lower(r.source) \o ".example.com"
        /\ r.url.listing = <<SeedMod(LastRun.seed, 9999), r.rank - 1>>

\* C13: the sort is stable on (score, similarity): two rows of a run with
\* equal score and equal similarity stand in generation order, the smaller
\* rank first.
C13_StableSort ==
  \A j, k \in 1..Len(ScanRows) :
    (j < k /\ ScanRows[j].score = ScanRows[k].score
           /\ ScanRows[j].similarity = ScanRows[k].similarity)
      => ScanRows[j].rank < ScanRows[k].rank

\* two rows of a run tie on both parts of the key, and rows generated
\* between them have been moved by the sort
C13_Witness ==
  \E j, k \in 1..Len(ScanRows) :
    /\ j < k
    /\ ScanRows[j].score = ScanRows[k].score
    /\ ScanRows[j].similarity = ScanRows[k].similarity
    /\ ScanRows[k].rank > ScanRows[j].rank + 1

\* C14: every alert of the list was created from a match record whose level
\* is high, in a run whose consent was "Monitoring enabled", the record
\* being among the first three of the run's ordered rows.
C14_AlertsFromHigh ==
  \A a \in 1..Len(alerts) :
    \E i \in 1..Len(runLog) :
      /\ runLog[i].consent = "Monitoring enabled"
      /\ \E k \in 1..Len(runLog[i].rows) :
           LET r == runLog[i].rows[k]
           IN  /\ k <= 3
               /\ r.level = "high"
               /\ alerts[a].title = r.title
               /\ alerts[a].brand = r.brand
               /\ alerts[a].risk = r.score
               /\ alerts[a].similarity = r.similarity
               /\ alerts[a].url = r.url

C16_ScoreRange ==
  \A i \in 1..Len(runLog) :
    /\ \A k \in 1..Len(runLog[i].scores) :
         LET sc == runLog[i].scores[k]
         IN  /\ 3976 * RandomRange <= sc.raw
             /\ sc.raw <= 8116 * RandomRange
             /\ sc.clamped = sc.raw
    /\ \A k \in 1..Len(runLog[i].rows) :
         LET r == runLog[i].rows[k]
         IN  /\ r.level # "low"
             /\ r.level = "high" => runLog[i].sensitivity \in {"Sacred", "Ceremonial"}

\* a Ceremonial run has a row of level high beside a row scored below 50
C16_Witness ==
  /\ runLog # <<>>
  /\ LastRun.sensitivity = "Ceremonial"
  /\ \E k \in 1..Len(ScanRows) : ScanRows[k].level = "high"
  /\ \E k \in 1..Len(LastRun.scores) : LastRun.scores[k].raw < 50 * ScoreUnit

\* the number written in the three digits of an id "ITEM-ddd"
IdNumber(id) ==
  LET d(k) == CHOOSE v \in 0..9 : SubSeq(Digits, v + 1, v + 1) = SubSeq(id, k, k)
  IN  100 * d(6) + 10 * d(7) + d(8)

\* C17: after n runs the registry holds exactly n entries, their ids are
\* pairwise distinct and are ITEM-001 .. ITEM-n, newest first: the entry at
\* position j counted from 0 has the number n - j.
C17_RegistryIds ==
  LET n == Len(registry)
  IN  /\ n = Len(runLog)
      /\ \A j \in 0..(n - 1) :
           LET id == registry[j + 1].id
           IN  /\ Len(id) = 8
               /\ SubSeq(id, 1, 5) = "ITEM-"
               /\ IdNumber(id) = n - j
      /\ \A j, k \in 1..n : j # k => registry[j].id # registry[k].id

\* two runs have been made and the newest entry is at the front
C17_Witness ==
  /\ Len(runLog) >= 2
  /\ registry[1].id = "ITEM-002"
  /\ registry[2].id = "ITEM-001"

====
